---------------------------- MODULE Spec2Model ----------------------------
(***************************************************************************)
(* Model of the movie-recommendation service (app/services, app/routers)   *)
(* and of the batch import script (postgres/init/import_data.py).          *)
(*                                                                         *)
(* Three specifications share the definitions below:                      *)
(*   SpecSeq    the HTTP service handling one request at a time, with     *)
(*              every possible vector of estimates as a fitted model;     *)
(*   SpecApi    the HTTP service with two worker threads (FastAPI runs    *)
(*              "def" endpoints in a thread pool), train and recommend    *)
(*              interleaved at the granularity of one predict() call;     *)
(*   SpecImport the batch import process, run up to MaxRuns times against *)
(*              the same store and the same CSV files.                    *)
(***************************************************************************)
EXTENDS Integers, Sequences, FiniteSets, TLC

VARIABLES
    \* ---- recommendation service -------------------------------------
    model,            \* the module-level SVD object (recommendation_service.py:14)
    pc,               \* per worker thread: "idle", "fit", "sweep", "done"
    call,             \* per worker thread: the request being served and its locals
    recommendations,  \* per worker thread: the local list built by get_recommendations
    response,         \* per worker thread: the HTTP response of the finished request
    completed,        \* history: number of train() calls that have completed
    fitted,           \* history: the parameters learned by the last completed train()
    \* ---- batch import -----------------------------------------------
    ipc,              \* position of the import process in main()
    files,            \* /data: the two CSV files (or Absent)
    attempts,         \* failed attempts of the loop of wait_for_postgres in progress
    store,            \* the PostgreSQL database: tables, their rows, indexes
    batchNo,          \* number of batches of the current load already committed
    report,           \* what the run logged: rows reported per load, steps done
    run,              \* number of the current run of the script (1..MaxRuns)
    afterFirst        \* history: the store as the first successful run left it

svcVars == <<model, pc, call, recommendations, response, completed, fitted>>
impVars == <<ipc, files, attempts, store, batchNo, report, run, afterFirst>>
vars    == <<model, pc, call, recommendations, response, completed, fitted,
             ipc, files, attempts, store, batchNo, report, run, afterFirst>>

-----------------------------------------------------------------------------
(* Bounds of the model *)

\* size M of the item universe (range(1, 1683) in the source, scaled down)
NumItems == 3
\* train() calls per behaviour
MaxTrains == 2

\* Reader(rating_scale=(1, 5))
ScaleMin == 1
ScaleMax == 5

Items == 1..NumItems
Users == {1, 2}
Threads == {"w1", "w2"}
\* num_recommendations is an unvalidated int query parameter
NumChoices == (0 - 1)..(NumItems + 1)

RECURSIVE Pow(_, _)
Pow(b, e) == IF e = 0 THEN 1 ELSE b * Pow(b, e - 1)

Min(a, b) == IF a <= b THEN a ELSE b
Max(a, b) == IF a >= b THEN a ELSE b

ScaleSize == ScaleMax - ScaleMin + 1
\* A fitted model is identified by a number p; AllParams has one p for every
\* vector of estimates over the item universe.
AllParams == 0..(Pow(ScaleSize, NumItems) - 1)
\* the fitted models the two-thread specification draws from
ApiParams == {7, 38, 99}

-----------------------------------------------------------------------------
(* Predictor *)

Untrained == [trained |-> FALSE, params |-> 0]

\* model.predict(user_id, movie_id).est: a deterministic function of the fitted
\* parameters, the user and the item, inside the rating scale.  Digit i of
\* (p shifted by the user) in base ScaleSize, so that p ranges over every
\* vector of estimates.
Est(p, u, i) ==
    ScaleMin + (((p + (u - 1) * 7) \div Pow(ScaleSize, i - 1)) % ScaleSize)

\* a guard that fits only a model that was never fitted
FitOnce(old, p) == IF old.trained THEN old ELSE [trained |-> TRUE, params |-> p]

\* model.fit(trainset): overwrites the shared model object in place
Fit(old, p) == [trained |-> TRUE, params |-> p]

-----------------------------------------------------------------------------
(* Recommendation Assembler: pure parts *)

\* list.sort(key=predicted_rating, reverse=True) as Python computes it: a stable
\* sort, equal keys keep their order of insertion.  Insertion of x after every
\* entry whose key is >= x's.
RECURSIVE InsertDesc(_, _)
InsertDesc(s, x) ==
    IF s = <<>> THEN <<x>>
    ELSE IF Head(s).predicted_rating >= x.predicted_rating
         THEN <<Head(s)>> \o InsertDesc(Tail(s), x)
         ELSE <<x>> \o s

RECURSIVE SortFrom(_, _)
SortFrom(acc, s) ==
    IF s = <<>> THEN acc ELSE SortFrom(InsertDesc(acc, Head(s)), Tail(s))

RECURSIVE Reverse(_)
Reverse(s) == IF s = <<>> THEN <<>> ELSE Reverse(Tail(s)) \o <<Head(s)>>

RECURSIVE InsertAsc(_, _)
InsertAsc(s, x) ==
    IF s = <<>> THEN <<x>>
    ELSE IF Head(s).predicted_rating <= x.predicted_rating
         THEN <<Head(s)>> \o InsertAsc(Tail(s), x)
         ELSE <<x>> \o s

RECURSIVE SortAscFrom(_, _)
SortAscFrom(acc, s) ==
    IF s = <<>> THEN acc ELSE SortAscFrom(InsertAsc(acc, Head(s)), Tail(s))

\* an ascending stable sort followed by a reversal: ties come out reversed
SortThenReverse(s) == Reverse(SortAscFrom(<<>>, s))

\* recommendations.sort(key=lambda x: x["predicted_rating"], reverse=True)
SortDesc(s) == SortFrom(<<>>, s)

\* an off-by-one slice
SliceShort(s, n) == SubSeq(s, 1, Min(Max(n - 1, 0), Len(s)))

\* recommendations[:num_recommendations], Python slice semantics: a negative
\* bound counts from the end, a bound past the end is clipped
Slice(s, n) ==
    IF n >= 0 THEN SubSeq(s, 1, Min(n, Len(s)))
    ELSE SubSeq(s, 1, Max(Len(s) + n, 0))

\* what the response carries of an entry (the Recommendation schema)
Public(s) == [k \in 1..Len(s) |->
                [movie_id |-> s[k].movie_id, predicted_rating |-> s[k].predicted_rating]]


-----------------------------------------------------------------------------
(* Rating Store snapshot and the aggregation helpers *)

\* the rows load_data() can download: the subsets of these tuples, in order
SnapshotRows ==
    << [user_id |-> 1, item_id |-> 1, rating |-> 5],
       [user_id |-> 1, item_id |-> 2, rating |-> 1],
       [user_id |-> 2, item_id |-> 1, rating |-> 3] >>

RECURSIVE Pick(_, _, _)
Pick(rows, keep, k) ==
    IF k > Len(rows) THEN <<>>
    ELSE (IF k \in keep THEN <<rows[k]>> ELSE <<>>) \o Pick(rows, keep, k + 1)

Snapshots == {Pick(SnapshotRows, keep, 1) : keep \in SUBSET (1..Len(SnapshotRows))}
QueryIds == 1..3

RECURSIVE Filter(_, _, _)
\* df[df[col] == id]
Filter(df, col, id) ==
    IF df = <<>> THEN <<>>
    ELSE (IF Head(df)[col] = id THEN <<Head(df)>> ELSE <<>>) \o Filter(Tail(df), col, id)

RECURSIVE SumRatings(_)
SumRatings(df) == IF df = <<>> THEN 0 ELSE Head(df).rating + SumRatings(Tail(df))

\* Series.mean(): NaN on an empty selection, else the mean (in hundredths)
Mean(df) ==
    IF df = <<>> THEN [nan |-> TRUE, x |-> 0]
    ELSE [nan |-> FALSE, x |-> (SumRatings(df) * 100) \div Len(df)]

\* user_data[['item_id', 'rating']].to_dict(orient='records')
Records(df) == [k \in 1..Len(df) |-> [item_id |-> df[k].item_id, rating |-> df[k].rating]]

\* Status of the JSON rendering of a MovieDetailsResponse.  NaN is a valid
\* float for the schema and no JSON number: a renderer that refuses NaN
\* (strict) fails the request, one that writes null answers 200.
RenderStatus(avg, strict) == IF avg.nan /\ strict THEN 500 ELSE 200

-----------------------------------------------------------------------------
(* Recommendation service: state and request handlers *)

NoAvg == [nan |-> FALSE, x |-> 0]
\* since: history, the number of train() calls completed when the call began;
\* matched: history, the number of snapshot rows the details query selected
IdleCall ==
    [op |-> "none", user_id |-> 0, num |-> 0, movie_id |-> 0, since |-> 0,
     matched |-> 0]
NoResponse ==
    [status |-> 0, kind |-> "none", recs |-> <<>>, rated |-> <<>>, avg |-> NoAvg,
     num |-> 0, cause |-> "none"]

Answer(t, r) == response' = [response EXCEPT ![t] = r]

Fitting == {t \in Threads : pc[t] = "fit"}

\* POST /train, up to the call of model.fit: load_data() downloads the
\* snapshot (loaded = FALSE: the download fails and the request ends in error)
TrainBegin(t, loaded) ==
    /\ pc[t] = "idle"
    /\ completed + Cardinality(Fitting) < MaxTrains
    /\ call' = [call EXCEPT ![t] = [IdleCall EXCEPT !.op = "train"]]
    /\ IF loaded
       THEN /\ pc' = [pc EXCEPT ![t] = "fit"]
            /\ UNCHANGED response
       ELSE /\ pc' = [pc EXCEPT ![t] = "done"]
            /\ Answer(t, [NoResponse EXCEPT !.status = 500, !.kind = "train",
                                            !.cause = "upstream"])
    /\ UNCHANGED <<model, recommendations, completed, fitted>>
    /\ UNCHANGED impVars

\* model.fit(trainset) returns: the shared model now holds the parameters p
\* this fit learned; train_model returns its message
TrainPublish(t, p) ==
    /\ pc[t] = "fit"
    /\ model' = Fit(model, p)
    /\ completed' = completed + 1
    /\ fitted' = p
    /\ pc' = [pc EXCEPT ![t] = "done"]
    /\ Answer(t, [NoResponse EXCEPT !.status = 200, !.kind = "train"])
    /\ UNCHANGED <<call, recommendations>>
    /\ UNCHANGED impVars

\* GET /recommend/{user_id}: get_recommendations up to the loop
RecommendBegin(t, u, n, loaded) ==
    /\ pc[t] = "idle"
    /\ call' = [call EXCEPT ![t] =
                  [op |-> "recommend", user_id |-> u, num |-> n, movie_id |-> 1,
                   since |-> completed, matched |-> 0]]
    /\ recommendations' = [recommendations EXCEPT ![t] = <<>>]
    /\ IF loaded
       THEN /\ pc' = [pc EXCEPT ![t] = "sweep"]
            /\ UNCHANGED response
       ELSE /\ pc' = [pc EXCEPT ![t] = "done"]
            /\ Answer(t, [NoResponse EXCEPT !.status = 500, !.kind = "recommend",
                                            !.cause = "upstream"])
    /\ UNCHANGED <<model, completed, fitted>>
    /\ UNCHANGED impVars

\* one iteration of the loop: model.predict on the shared model, append.
\* predict on a model that was never fitted raises; the request ends in error.
Predict(t) ==
    /\ pc[t] = "sweep"
    /\ call[t].movie_id <= NumItems
    /\ IF model.trained
       THEN /\ recommendations' = [recommendations EXCEPT ![t] =
                   Append(@, [movie_id |-> call[t].movie_id,
                              predicted_rating |->
                                  Est(model.params, call[t].user_id, call[t].movie_id),
                              gen |-> completed,
                              fit |-> fitted])]
            /\ call' = [call EXCEPT ![t].movie_id = @ + 1]
            /\ UNCHANGED <<pc, response>>
       ELSE /\ pc' = [pc EXCEPT ![t] = "done"]
            /\ Answer(t, [NoResponse EXCEPT !.status = 500, !.kind = "recommend",
                                            !.cause = "untrained"])
            /\ UNCHANGED <<call, recommendations>>
    /\ UNCHANGED <<model, completed, fitted>>
    /\ UNCHANGED impVars

\* after the loop: sort, slice, respond
Rank(t) ==
    /\ pc[t] = "sweep"
    /\ call[t].movie_id > NumItems
    /\ recommendations' = [recommendations EXCEPT ![t] = SortDesc(@)]
    /\ Answer(t, [NoResponse EXCEPT
                    !.status = 200, !.kind = "recommend",
                    !.recs = Slice(SortDesc(recommendations[t]), call[t].num)])
    /\ pc' = [pc EXCEPT ![t] = "done"]
    /\ UNCHANGED <<model, call, completed, fitted>>
    /\ UNCHANGED impVars

\* GET /user/{user_id}/details over the snapshot df that load_data() returned
UserDetails(t, u, df) ==
    /\ pc[t] = "idle"
    /\ call' = [call EXCEPT ![t] =
                  [IdleCall EXCEPT !.op = "user_details", !.user_id = u,
                                   !.matched = Len(Filter(df, "user_id", u))]]
    /\ Answer(t, [NoResponse EXCEPT
                    !.status = 200, !.kind = "user_details",
                    !.rated = Records(Filter(df, "user_id", u))])
    /\ pc' = [pc EXCEPT ![t] = "done"]
    /\ UNCHANGED <<model, recommendations, completed, fitted>>
    /\ UNCHANGED impVars

\* GET /movie/{movie_id}/details over the snapshot df that load_data() returned
MovieDetails(t, m, df, strict) ==
    /\ pc[t] = "idle"
    /\ call' = [call EXCEPT ![t] =
                  [IdleCall EXCEPT !.op = "movie_details", !.movie_id = m,
                                   !.matched = Len(Filter(df, "item_id", m))]]
    /\ LET movie_data == Filter(df, "item_id", m)
           avg_rating == Mean(movie_data)
           status     == RenderStatus(avg_rating, strict)
       IN  Answer(t, IF status = 200
                     THEN [NoResponse EXCEPT
                             !.status = 200, !.kind = "movie_details",
                             !.avg = avg_rating, !.num = Len(movie_data)]
                     ELSE [NoResponse EXCEPT
                             !.status = 500, !.kind = "movie_details",
                             !.cause = "render"])
    /\ pc' = [pc EXCEPT ![t] = "done"]
    /\ UNCHANGED <<model, recommendations, completed, fitted>>
    /\ UNCHANGED impVars

\* the response is sent and the worker thread goes back to the pool
Return(t) ==
    /\ pc[t] = "done"
    /\ pc' = [pc EXCEPT ![t] = "idle"]
    /\ call' = [call EXCEPT ![t] = IdleCall]
    /\ recommendations' = [recommendations EXCEPT ![t] = <<>>]
    /\ Answer(t, NoResponse)
    /\ UNCHANGED <<model, completed, fitted>>
    /\ UNCHANGED impVars

-----------------------------------------------------------------------------
(* Batch import: bounds, inputs and the store *)

\* retries = 30 in wait_for_postgres
Retries == 30
\* batch_size = 1000 in import_movies, scaled down
MovieBatchSize == 2
\* batch_size = 5000 in import_ratings, scaled down
RatingBatchSize == 2
\* rows of the two CSV files
MaxMovieRows == 3
MaxRatingRows == 3
\* runs of the script against the same store
MaxRuns == 2

\* a title that does not fit String(255)
LongTitle == "more than 255 characters"

\* the rows a movies file is made of: two movies, one of them also with a
\* title the column cannot hold
MovieRows ==
    { [movie_id |-> 1, title |-> "a", genres |-> "g"],
      [movie_id |-> 2, title |-> "b", genres |-> "g"],
      [movie_id |-> 2, title |-> LongTitle, genres |-> "g"] }

\* the rows a ratings file is made of: two keys, one of them with two ratings
RatingRows ==
    { [user_id |-> 1, movie_id |-> 1, rating |-> 4, timestamp |-> 0],
      [user_id |-> 1, movie_id |-> 1, rating |-> 2, timestamp |-> 0],
      [user_id |-> 2, movie_id |-> 2, rating |-> 4, timestamp |-> 0] }

SeqsUpTo(S, n) == UNION {[1..k -> S] : k \in 0..n}

StepOrder == <<"check", "wait", "schema", "movies", "ratings", "indexes">>
AllTables == {"movies", "ratings"}
AllIndexes == {"idx_ratings_user", "idx_ratings_movie"}

\* ddlCommits: whether the client library commits a DDL statement executed on
\* a plain engine.connect() connection (it rolls it back on close otherwise);
\* fixed by the installed library, the same for every run
EmptyStore ==
    [tables |-> {}, movies |-> {}, ratings |-> {}, indexes |-> {}, ddlCommits |-> TRUE]

\* the column types of models.Movie: String(255) for title and genres
MovieFits(row) == row.title # LongTitle /\ row.genres # LongTitle

\* rows of the table with the primary key of row
MovieClash(tbl, row) == {r \in tbl : r.movie_id = row.movie_id}
RatingClash(tbl, row) ==
    {r \in tbl : r.user_id = row.user_id /\ r.movie_id = row.movie_id}

\* ON CONFLICT ... DO UPDATE: the new row replaces the stored one
DoUpdate(tbl, clash, row) == (tbl \ clash) \cup {row}

\* ON CONFLICT (movie_id) DO NOTHING
ResolveMovie(tbl, clash, row) == tbl

\* ON CONFLICT (user_id, movie_id) DO NOTHING
ResolveRating(tbl, clash, row) == tbl

\* conn.execute(INSERT INTO movies ..., batch): one INSERT per row, in order,
\* in one transaction; the first failing row ends it
RECURSIVE ExecMovies(_, _, _)
ExecMovies(tables, tbl, batch) ==
    IF batch = <<>> THEN [ok |-> TRUE, tbl |-> tbl]
    ELSE LET row == Head(batch) IN
         IF "movies" \notin tables \/ ~MovieFits(row)
         THEN [ok |-> FALSE, tbl |-> tbl]
         ELSE IF MovieClash(tbl, row) # {}
              THEN ExecMovies(tables, ResolveMovie(tbl, MovieClash(tbl, row), row),
                              Tail(batch))
              ELSE ExecMovies(tables, tbl \cup {row}, Tail(batch))

\* conn.execute(INSERT INTO ratings ..., batch); a row that is inserted must
\* reference a stored movie (ForeignKey('movies.movie_id'))
RECURSIVE ExecRatings(_, _, _, _)
ExecRatings(tables, movies, tbl, batch) ==
    IF batch = <<>> THEN [ok |-> TRUE, tbl |-> tbl]
    ELSE LET row == Head(batch) IN
         IF "ratings" \notin tables
         THEN [ok |-> FALSE, tbl |-> tbl]
         ELSE IF RatingClash(tbl, row) # {}
              THEN ExecRatings(tables, movies,
                               ResolveRating(tbl, RatingClash(tbl, row), row),
                               Tail(batch))
              ELSE IF \A m \in movies : m.movie_id # row.movie_id
                   THEN [ok |-> FALSE, tbl |-> tbl]
                   ELSE ExecRatings(tables, movies, tbl \cup {row}, Tail(batch))

\* a failing batch that keeps the rows inserted before the failing row
KeepPartial(before, result) == result.tbl

\* with engine.begin() as conn: commit when the block ends, roll the whole
\* batch back when it raises
EndTransaction(before, result) == IF result.ok THEN result.tbl ELSE before

\* data[i:i + batch_size] for the k-th batch (k from 0)
BatchOf(data, k, size) == SubSeq(data, k * size + 1, Min((k + 1) * size, Len(data)))

\* create_all that issues CREATE TABLE without looking for the table first
CreateAllUnchecked(tables) == IF tables = {} THEN [ok |-> TRUE, tables |-> AllTables]
                              ELSE [ok |-> FALSE, tables |-> tables]

\* Base.metadata.create_all(engine): creates the tables that do not exist
CreateAll(tables) == [ok |-> TRUE, tables |-> tables \cup AllTables]

\* a loop that runs once more than retries
MoreAttemptsOffByOne(i) == i <= Retries

\* for i in range(retries): i attempts made so far, is there another one
MoreAttempts(i) == i < Retries

\* main() with the two loads swapped
StepAfterSwapped(step) ==
    CASE step = "check"   -> "wait"
      [] step = "wait"    -> "schema"
      [] step = "schema"  -> "ratings"
      [] step = "ratings" -> "movies"
      [] step = "movies"  -> "indexes"
      [] OTHER            -> "exit"

\* main(): the step that follows a step that succeeded
StepAfter(step) ==
    CASE step = "check"   -> "wait"
      [] step = "wait"    -> "schema"
      [] step = "schema"  -> "movies"
      [] step = "movies"  -> "ratings"
      [] step = "ratings" -> "indexes"
      [] OTHER            -> "exit"

-----------------------------------------------------------------------------
(* Batch import: the process *)

NewReport(st) ==
    [exit |-> "none", failed |-> "none", steps |-> <<"check">>,
     movies |-> 0 - 1, ratings |-> 0 - 1, cause |-> "none", before |-> st]

InitImport ==
    /\ ipc = "check"
    /\ files \in
         [moviesPresent : {TRUE}, ratingsPresent : {TRUE},
          movies : SeqsUpTo(MovieRows, MaxMovieRows),
          ratings : SeqsUpTo(RatingRows, MaxRatingRows)]
         \cup
         [moviesPresent : BOOLEAN, ratingsPresent : BOOLEAN,
          movies : {<<>>}, ratings : {<<>>}]
    /\ attempts = 0
    /\ store \in {[EmptyStore EXCEPT !.ddlCommits = b] : b \in BOOLEAN}
    /\ batchNo = 0
    /\ report = NewReport(store)
    /\ run = 1
    /\ afterFirst = [set |-> FALSE, run |-> 0, store |-> EmptyStore]

\* the step succeeded: main() goes on to the next one
Proceed(step, rep) ==
    /\ ipc' = StepAfter(step)
    /\ report' = IF StepAfter(step) = "exit"
                 THEN [rep EXCEPT !.exit = "ok"]
                 ELSE [rep EXCEPT !.steps = Append(@, StepAfter(step))]

\* the step failed: sys.exit(1), directly or through main()'s except clause.
\* cause: "files" (a CSV file is missing), "exhausted" (every connection
\* attempt failed), "connection" (the store could not be reached during a
\* later step), "data" (the store refused a statement)
Fail(step, why) ==
    /\ ipc' = "exit"
    /\ report' = [report EXCEPT !.exit = "fail", !.failed = step, !.cause = why]

\* check_csv_files() and the test of its result in main()
CheckCsv ==
    /\ ipc = "check"
    /\ IF files.moviesPresent /\ files.ratingsPresent
       THEN Proceed("check", report)
       ELSE Fail("check", "files")
    /\ UNCHANGED <<files, attempts, store, batchNo, run, afterFirst>>
    /\ UNCHANGED svcVars

\* one iteration of the loop of wait_for_postgres: engine.connect() and
\* SELECT 1 succeed ("ok": the function returns the engine and its counter is
\* gone), raise OperationalError ("operational": sleep and loop, or give up
\* after the last iteration), or raise anything else ("other").  attempts
\* counts the failed attempts of the loop in progress.
Connect(outcome) ==
    /\ ipc = "wait"
    /\ CASE outcome = "ok" ->
              /\ Proceed("wait", report)
              /\ attempts' = 0
         [] outcome = "operational" ->
              /\ attempts' = attempts + 1
              /\ IF MoreAttempts(attempts + 1)
                 THEN UNCHANGED <<ipc, report>>
                 ELSE Fail("wait", "exhausted")
         [] OTHER ->
              /\ attempts' = attempts + 1
              /\ Fail("wait", "connection")
    /\ UNCHANGED <<files, store, batchNo, run, afterFirst>>
    /\ UNCHANGED svcVars

\* create_db_schema(engine); fault: the connection is lost
CreateSchema(fault) ==
    /\ ipc = "schema"
    /\ LET res == CreateAll(store.tables) IN
       IF fault \/ ~res.ok
       THEN /\ Fail("schema", IF fault THEN "connection" ELSE "data")
            /\ UNCHANGED store
       ELSE /\ Proceed("schema", report)
            /\ store' = [store EXCEPT !.tables = res.tables]
    /\ batchNo' = 0
    /\ UNCHANGED <<files, attempts, run, afterFirst>>
    /\ UNCHANGED svcVars

\* one iteration of the batch loop of import_movies
MoviesBatch(fault) ==
    /\ ipc = "movies"
    /\ batchNo * MovieBatchSize < Len(files.movies)
    /\ LET batch == BatchOf(files.movies, batchNo, MovieBatchSize)
           res   == ExecMovies(store.tables, store.movies, batch)
       IN  IF fault
           THEN /\ Fail("movies", "connection")
                /\ UNCHANGED <<store, batchNo>>
           ELSE /\ store' = [store EXCEPT !.movies = EndTransaction(@, res)]
                /\ IF res.ok
                   THEN /\ batchNo' = batchNo + 1
                        /\ UNCHANGED <<ipc, report>>
                   ELSE /\ Fail("movies", "data")
                        /\ UNCHANGED batchNo
    /\ UNCHANGED <<files, attempts, run, afterFirst>>
    /\ UNCHANGED svcVars

\* import_movies after its loop: session.commit(), "Imported {len(movies_df)} movies"
MoviesFinish ==
    /\ ipc = "movies"
    /\ batchNo * MovieBatchSize >= Len(files.movies)
    /\ Proceed("movies", [report EXCEPT !.movies = Len(files.movies)])
    /\ batchNo' = 0
    /\ UNCHANGED <<files, attempts, store, run, afterFirst>>
    /\ UNCHANGED svcVars

\* one iteration of the batch loop of import_ratings
RatingsBatch(fault) ==
    /\ ipc = "ratings"
    /\ batchNo * RatingBatchSize < Len(files.ratings)
    /\ LET batch == BatchOf(files.ratings, batchNo, RatingBatchSize)
           res   == ExecRatings(store.tables, store.movies, store.ratings, batch)
       IN  IF fault
           THEN /\ Fail("ratings", "connection")
                /\ UNCHANGED <<store, batchNo>>
           ELSE /\ store' = [store EXCEPT !.ratings = EndTransaction(@, res)]
                /\ IF res.ok
                   THEN /\ batchNo' = batchNo + 1
                        /\ UNCHANGED <<ipc, report>>
                   ELSE /\ Fail("ratings", "data")
                        /\ UNCHANGED batchNo
    /\ UNCHANGED <<files, attempts, run, afterFirst>>
    /\ UNCHANGED svcVars

\* import_ratings after its loop: session.commit(), "Imported {len(ratings_df)} ratings"
RatingsFinish ==
    /\ ipc = "ratings"
    /\ batchNo * RatingBatchSize >= Len(files.ratings)
    /\ Proceed("ratings", [report EXCEPT !.ratings = Len(files.ratings)])
    /\ batchNo' = 0
    /\ UNCHANGED <<files, attempts, store, run, afterFirst>>
    /\ UNCHANGED svcVars

\* create_indexes(engine) and the end of main(): CREATE INDEX IF NOT EXISTS
\* twice on the ratings table, on a connection that is closed without commit()
CreateIndexes(fault) ==
    /\ ipc = "indexes"
    /\ IF fault \/ "ratings" \notin store.tables
       THEN /\ Fail("indexes", IF fault THEN "connection" ELSE "data")
            /\ UNCHANGED <<store, afterFirst>>
       ELSE /\ Proceed("indexes", report)
            /\ store' = [store EXCEPT !.indexes =
                            IF store.ddlCommits THEN @ \cup AllIndexes ELSE @]
            /\ afterFirst' = IF afterFirst.set THEN afterFirst
                             ELSE [set |-> TRUE, run |-> run, store |-> store']
    /\ UNCHANGED <<files, attempts, batchNo, run>>
    /\ UNCHANGED svcVars

\* the script is started again, on the same files and the same store
Rerun ==
    /\ ipc = "exit"
    /\ run < MaxRuns
    /\ run' = run + 1
    /\ ipc' = "check"
    /\ attempts' = 0
    /\ batchNo' = 0
    /\ report' = NewReport(store)
    /\ UNCHANGED <<files, store, afterFirst>>
    /\ UNCHANGED svcVars

-----------------------------------------------------------------------------
(* Specifications *)

ServiceIdle ==
    /\ model = Untrained
    /\ pc = [t \in Threads |-> "idle"]
    /\ call = [t \in Threads |-> IdleCall]
    /\ recommendations = [t \in Threads |-> <<>>]
    /\ response = [t \in Threads |-> NoResponse]
    /\ completed = 0
    /\ fitted = 0

ImportOff ==
    /\ ipc = "exit"
    /\ files = [moviesPresent |-> FALSE, ratingsPresent |-> FALSE,
                movies |-> <<>>, ratings |-> <<>>]
    /\ attempts = 0
    /\ store = EmptyStore
    /\ batchNo = 0
    /\ report = NewReport(EmptyStore)
    /\ run = MaxRuns
    /\ afterFirst = [set |-> FALSE, run |-> 0, store |-> EmptyStore]

\* the service with one worker: requests are served one after the other
NextSeq ==
    \E t \in {"w1"} :
        \/ \E loaded \in BOOLEAN : TrainBegin(t, loaded)
        \/ \E p \in AllParams : TrainPublish(t, p)
        \/ \E u \in Users, n \in NumChoices, loaded \in BOOLEAN :
               RecommendBegin(t, u, n, loaded)
        \/ Predict(t)
        \/ Rank(t)
        \/ \E u \in QueryIds, df \in Snapshots : UserDetails(t, u, df)
        \/ \E m \in QueryIds, df \in Snapshots, strict \in BOOLEAN :
               MovieDetails(t, m, df, strict)
        \/ Return(t)

\* the service with two workers running train and recommend concurrently
NextApi ==
    \E t \in Threads :
        \/ \E loaded \in BOOLEAN : TrainBegin(t, loaded)
        \/ \E p \in ApiParams : TrainPublish(t, p)
        \/ \E n \in {1, NumItems}, loaded \in BOOLEAN : RecommendBegin(t, 1, n, loaded)
        \/ Predict(t)
        \/ Rank(t)
        \/ Return(t)

NextImport ==
    \/ CheckCsv
    \/ \E outcome \in {"ok", "operational", "other"} : Connect(outcome)
    \/ \E fault \in BOOLEAN : CreateSchema(fault)
    \/ \E fault \in BOOLEAN : MoviesBatch(fault)
    \/ MoviesFinish
    \/ \E fault \in BOOLEAN : RatingsBatch(fault)
    \/ RatingsFinish
    \/ \E fault \in BOOLEAN : CreateIndexes(fault)
    \/ Rerun

\* the service just started, the import script not running
InitService == ServiceIdle /\ ImportOff
\* the import script just started, the service idle
InitBatch == ServiceIdle /\ InitImport

SpecSeq == InitService /\ [][NextSeq]_vars
SpecApi == InitService /\ [][NextApi]_vars
SpecImport == InitBatch /\ [][NextImport]_vars

-----------------------------------------------------------------------------
(* Claims about the recommendation service *)

Finished(t, op) == pc[t] = "done" /\ call[t].op = op

\* C1: a recommend call for num_recommendations >= 1 that began after a
\* train() completed and whose snapshot download succeeded answers 200 with
\* exactly min(num_recommendations, M) entries; asking for more than M is no error.
C1_LengthIsMin ==
    \A t \in Threads :
        (Finished(t, "recommend") /\ call[t].num >= 1 /\ call[t].since >= 1
            /\ response[t].cause # "upstream")
        => /\ response[t].status = 200
           /\ Len(response[t].recs) = Min(call[t].num, NumItems)

C1_Witness ==
    \E t \in Threads :
        /\ Finished(t, "recommend")
        /\ call[t].num = NumItems + 1
        /\ response[t].status = 200
        /\ Len(response[t].recs) = NumItems

\* C2: the returned list is in non-increasing order of predicted_rating, and
\* entries of equal predicted_rating are in ascending order of movie_id.
C2_SortedStable ==
    \A t \in Threads :
        (Finished(t, "recommend") /\ response[t].status = 200)
        => LET r == response[t].recs IN
           \A i, j \in 1..Len(r) :
               i < j => \/ r[i].predicted_rating > r[j].predicted_rating
                        \/ /\ r[i].predicted_rating = r[j].predicted_rating
                           /\ r[i].movie_id < r[j].movie_id

C2_Witness ==
    \E t \in Threads :
        /\ Finished(t, "recommend")
        /\ response[t].status = 200
        /\ LET r == response[t].recs IN
           /\ Len(r) = NumItems
           /\ r[1].predicted_rating > r[2].predicted_rating
           /\ r[2].predicted_rating = r[3].predicted_rating
           /\ r[2].movie_id < r[3].movie_id

\* C3: every recommendation sweep scores all of its items against one model
\* snapshot: all the scores of a finished sweep were computed from the same
\* fitted parameters, whatever train() calls ran beside it.
C3_OneSnapshotPerSweep ==
    \A t \in Threads :
        (Finished(t, "recommend") /\ response[t].status = 200)
        => \A i, j \in 1..Len(recommendations[t]) :
               recommendations[t][i].fit = recommendations[t][j].fit

\* C4: in a recommend call that began after a train() completed, every score
\* is computed from the parameters of the latest train() completed when the
\* score is computed (never an earlier model, never a stored result); that
\* train() is the one completed before the call began, or a later one.
C4_RetrainInvalidates ==
    \A t \in Threads :
        (call[t].op = "recommend" /\ call[t].since >= 1)
        => \A k \in 1..Len(recommendations[t]) :
               LET e == recommendations[t][k] IN
               /\ e.gen >= call[t].since
               /\ e.predicted_rating = Est(e.fit, call[t].user_id, e.movie_id)

\* a call that began after the first train() and finished after the second,
\* with a score that tells the two models apart
C4_Witness ==
    \E t \in Threads :
        /\ Finished(t, "recommend")
        /\ response[t].status = 200
        /\ call[t].since = 1
        /\ completed = 2
        /\ \E k \in 1..Len(recommendations[t]) :
               LET e == recommendations[t][k] IN
               /\ e.gen = 2
               /\ \E q \in ApiParams :
                      Est(q, call[t].user_id, e.movie_id) # e.predicted_rating

\* C5: a details query for a user or an item with no rating in the snapshot
\* answers 200 with an empty result (no rated movie, zero ratings).
C5_NotFoundIsEmpty ==
    \A t \in Threads :
        (pc[t] = "done" /\ call[t].op \in {"user_details", "movie_details"}
            /\ call[t].matched = 0)
        => /\ response[t].status = 200
           /\ response[t].rated = <<>>
           /\ response[t].num = 0

-----------------------------------------------------------------------------
(* Claims about the batch import *)

Last(q) == q[Len(q)]
SameKey(a, b) == a.user_id = b.user_id /\ a.movie_id = b.movie_id
InRun == run' = run

C6_Bounded ==
    /\ attempts <= Retries
    /\ ipc = "wait" => attempts < Retries
    /\ (ipc = "exit" /\ report.failed = "wait")
       => /\ report.exit = "fail"
          /\ report.steps = <<"check", "wait">>
          /\ store = report.before
          /\ report.cause = "exhausted" => attempts = Retries

C6_Loop ==
    /\ (ipc = "wait" /\ ipc' = "wait") => attempts' = attempts + 1
    /\ (ipc = "wait" /\ ipc' = "schema") => attempts' = 0
    /\ (ipc # "wait" /\ ipc' = "wait") => (ipc = "check" /\ attempts' = 0)
    /\ (ipc \notin {"check", "wait"} /\ InRun) => attempts' = attempts

\* C6: the wait loop makes at most Retries (30) attempts, each iteration that
\* stays in the loop is one more failed attempt, the loop is left for the schema
\* step at the first success and never entered again in the run, and a run
\* that fails in the loop exits non-zero with the store untouched, after
\* exactly Retries attempts when every attempt raised the connection error.
C6_WaitLoop == [](C6_Bounded) /\ [][C6_Loop]_vars

C6_Witness ==
    /\ ipc = "exit"
    /\ report.failed = "wait"
    /\ report.cause = "exhausted"
    /\ attempts = Retries
    /\ report.exit = "fail"
    /\ store.tables = {}

C7_State ==
    /\ \A a, b \in store.ratings : SameKey(a, b) => a = b
    /\ report.ratings >= 0 => report.ratings = Len(files.ratings)
    /\ (ipc = "exit" /\ report.failed = "ratings" /\ report.cause = "data")
       => LET batch == BatchOf(files.ratings, batchNo, RatingBatchSize) IN
          \E k \in 1..Len(batch) :
              \A m \in store.movies : m.movie_id # batch[k].movie_id

\* C7: a ratings row whose key is already stored (by an earlier run, batch or
\* row) is skipped: stored rows are never changed or removed, the table holds
\* one row per (user_id, movie_id), a ratings load fails on data only when a
\* row of the batch references a movie that is not stored, and a finished
\* load reports the number of rows of the CSV file.
C7_DuplicatesSkipped == [](C7_State) /\ [][store.ratings \subseteq store'.ratings]_vars

\* a finished load of a file holding two rows of one key with different
\* ratings: the first is stored, the second is not, both are counted
C7_Witness ==
    /\ report.exit = "ok"
    /\ run = 1
    /\ report.ratings = Len(files.ratings)
    /\ \E i, j \in 1..Len(files.ratings) :
          /\ i < j
          /\ SameKey(files.ratings[i], files.ratings[j])
          /\ files.ratings[i] # files.ratings[j]
          /\ files.ratings[i] \in store.ratings
          /\ files.ratings[j] \notin store.ratings
    /\ Cardinality(store.ratings) < report.ratings

C8_State ==
    /\ report.steps = SubSeq(StepOrder, 1, Len(report.steps))
    /\ ipc # "exit" => (ipc = Last(report.steps) /\ report.exit = "none")
    /\ ipc = "exit" => report.exit \in {"ok", "fail"}
    /\ report.exit = "ok" => (report.steps = StepOrder /\ report.failed = "none"
                               /\ report.movies >= 0 /\ report.ratings >= 0)
    /\ report.exit = "fail" => report.failed = Last(report.steps)
    /\ report.ratings >= 0 => report.movies >= 0

C8_Step ==
    /\ store'.ratings # store.ratings => (InRun /\ ipc = "ratings" /\ report.movies >= 0)
    /\ store'.movies # store.movies => (InRun /\ ipc = "movies")
    /\ store'.indexes # store.indexes
       => (InRun /\ ipc = "indexes" /\ report.movies >= 0 /\ report.ratings >= 0)
    /\ (ipc = "exit" /\ InRun) => UNCHANGED <<ipc, store, report>>
    /\ InRun => Len(report'.steps) >= Len(report.steps)

\* C8: the steps of a run are executed in the order check, wait, schema,
\* movies, ratings, indexes, each at most once; ratings rows are inserted only
\* after the movies load finished, indexes created only after both loads
\* finished; the run exits zero only after all six steps, and a failing step
\* is the last step of its run, which exits non-zero.
C8_OrderedFailFast == [](C8_State) /\ [][C8_Step]_vars

C8_Witness ==
    /\ ipc = "exit"
    /\ run = 1
    /\ report.exit = "fail"
    /\ report.failed = "ratings"
    /\ report.cause = "data"
    /\ report.steps = <<"check", "wait", "schema", "movies", "ratings">>
    /\ store.movies # {}
    /\ store.indexes = {}

\* the table after the first k batches of data, each committed
RECURSIVE MoviesAfter(_, _, _, _)
MoviesAfter(tables, tbl, data, k) ==
    IF k = 0 THEN tbl
    ELSE ExecMovies(tables, MoviesAfter(tables, tbl, data, k - 1),
                    BatchOf(data, k - 1, MovieBatchSize)).tbl

RECURSIVE RatingsAfter(_, _, _, _, _)
RatingsAfter(tables, movies, tbl, data, k) ==
    IF k = 0 THEN tbl
    ELSE ExecRatings(tables, movies, RatingsAfter(tables, movies, tbl, data, k - 1),
                     BatchOf(data, k - 1, RatingBatchSize)).tbl

C9_State ==
    /\ (ipc = "exit" /\ report.failed = "movies")
       => /\ store.movies =
               MoviesAfter(store.tables, report.before.movies, files.movies, batchNo)
          /\ store.ratings = report.before.ratings
    /\ (ipc = "exit" /\ report.failed = "ratings")
       => store.ratings =
               RatingsAfter(store.tables, store.movies, report.before.ratings,
                            files.ratings, batchNo)

C9_Step ==
    /\ (ipc \in {"movies", "ratings"} /\ ipc' = "exit")
       => (store' = store /\ batchNo' = batchNo)
    /\ (ipc = "exit" /\ InRun) => (store' = store /\ batchNo' = batchNo)

\* C9: when batch k of a load fails, the table holds exactly what the batches
\* 1..k-1 committed, the failing step changes nothing in the store (batch k
\* contributes no row, the rollback removes none), and no further batch runs.
C9_BatchesCommitSeparately == [](C9_State) /\ [][C9_Step]_vars

\* a load that failed on its second batch, the rows of the first one stored
C9_Witness ==
    /\ ipc = "exit"
    /\ run = 1
    /\ report.failed = "movies"
    /\ report.cause = "data"
    /\ batchNo = 1
    /\ store.movies # {}
    /\ store.movies # report.before.movies

\* C10: once a run has succeeded, every later run on the same files leaves the
\* store (tables, rows, indexes) as that run left it, and ends with exit code
\* zero unless the store cannot be reached.
C10_Idempotent ==
    afterFirst.set
    => /\ store = afterFirst.store
       /\ ipc = "exit" => (report.exit = "ok" \/ report.cause \in {"exhausted", "connection"})

\* a second run that succeeded after a first run that stored rows
C10_Witness ==
    /\ afterFirst.set
    /\ afterFirst.run = 1
    /\ run = 2
    /\ ipc = "exit"
    /\ report.exit = "ok"
    /\ store.ratings # {}
    /\ Cardinality(store.movies) = 2
    /\ store.indexes = AllIndexes

=============================================================================
